---- MODULE Spec2Model ----
(***************************************************************************)
(* Model of the duck and mongo adapters of nvim-dbee                       *)
(* (dbee/adapters/duck.go = src/unnamed/part_000, dbee/adapters/mongo.go)  *)
(* together with the result-stream layer they are written against          *)
(* (dbee/core/builders: NextSingle, NextYield, the stream's                *)
(* HasNext/Next/Close/SetCallback).  The builders package is not part of   *)
(* the sources at hand; its operators below follow sections 4.1 and 4.2 of *)
(* the specification.                                                      *)
(***************************************************************************)
EXTENDS Integers, Sequences, FiniteSets, TLC

\* ------------------------------------------------------------------ bounds
\* connections the duck driver may acquire in one behaviour
MaxConn == 2
\* rows of one duck result set (tables listed by SHOW TABLES)
MaxRows == 2
\* distinct documents a mongo cursor reply may carry
MaxItem == 2
\* items a free-standing emitting-function producer may emit
MaxEmit == 3
\* Next calls recorded per stream
MaxNext == 4
\* consecutive HasNext calls that are told apart
MaxStreak == 2

\* ------------------------------------------------------------------ values
Nil == "nil"
ErrConn == "ErrConn"
ErrQuery == "ErrQuery"
ErrCancelled == "Cancelled"
ErrScan == "ErrScan"
ErrExhausted == "Exhausted"
ErrProducer == "ErrProducer"
ErrMalformedReply == "type assertion for cursor object failed"
ErrMarshal == "cannot marshal command"
ErrNoDatabases == "no databases found"
ErrSelectDefault == "failed to select default database"
ErrListDatabases == "failed to retrieve database names"

TableNames == {"a", "b", "c"}
DbNames == {"a", "b"}

RECURSIVE SeqsUpTo(_, _)
\* all sequences over S without repetition, of length at most n
SeqsUpTo(S, n) ==
    IF n = 0 THEN {<<>>}
    ELSE LET shorter == SeqsUpTo(S, n - 1)
             longer == {Append(s, x) : s \in shorter, x \in S}
         IN  shorter \cup
             {s \in longer : \A i, j \in 1..Len(s) : i # j => s[i] # s[j]}

Range(s) == {s[i] : i \in 1..Len(s)}

RECURSIVE Perms(_)
\* all orders in which the members of S can be visited
Perms(S) ==
    IF S = {} THEN {<<>>}
    ELSE UNION {{<<x>> \o p : p \in Perms(S \ {x})} : x \in S}

\* ------------------------------------------------- mongo replies (bson.M)
\* a value of one cursor field: a bson.A of documents, or anything else
FieldVals ==
    {[arr |-> TRUE, items |-> s] : s \in SeqsUpTo(1..MaxItem, MaxItem)}
        \cup {[arr |-> FALSE, items |-> <<>>]}

\* the documents a "cursor" field may hold: a map from field names to
\* values, as the set of its entries (a Go map has no order of its own)
CursorDocs ==
    LET named(F) == {{[name |-> n, arr |-> g[n].arr, items |-> g[n].items] : n \in F} :
                        g \in [F -> FieldVals]}
        batches == UNION {named(F) : F \in SUBSET {"firstBatch", "nextBatch"}}
        withId == {d \cup {[name |-> "id", arr |-> FALSE, items |-> <<>>]} : d \in batches}
    IN  {d \in batches \cup withId :
            \A e1, e2 \in d : e1 # e2 => Range(e1.items) \cap Range(e2.items) = {}}

\* what resp["cursor"] may be: a document (bson.M) or a value of another type
CursorVals ==
    {[doc |-> TRUE, fields |-> d] : d \in CursorDocs} \cup {[doc |-> FALSE, fields |-> {}]}

NoCursor == [doc |-> FALSE, fields |-> {}]

\* the decoded reply of RunCommand: whether it has a "cursor" field, that
\* field's value, and the rest of the reply (its "ok" field)
Replies ==
    {[hasCursor |-> TRUE, cursor |-> c, ok |-> 1] : c \in CursorVals}
        \cup {[hasCursor |-> FALSE, cursor |-> NoCursor, ok |-> k] : k \in {0, 1}}

\* mongo.go:220-224
newMongoResponse(val) == [value |-> val]

\* ---------------------------------------------------------- result stream
\* The stream a Query returns.  kind: "rows" (SQL rows of the duck client),
\* "single" (builders.NextSingle), "yield" (builders.NextYield).
\*   items   the rows of the backend / the one value / the buffer of emitted values
\*   pos     how many of them Next has handed out
\*   failAt  rows only: the index of the row whose scan fails (0: none)
\*   perr    yield only: the error the producer returned (Nil: none)
\*   ran     yield only: whether the producer has been driven
\*   src     yield only: the producer, see below
\*   failed  a Next has returned a backend error
\*   cb      the connection the cleanup callback closes (0: no callback)
\*   once    the cleanup has been triggered
\*   dropped the consumer no longer holds the stream
NoSrc == [kind |-> "none", cur |-> NoCursor, emit |-> <<>>, err |-> Nil]

\* a stream built without metadata
NoMeta == [SchemaType |-> "none"]

NoStream ==
    [kind |-> "none", items |-> <<>>, pos |-> 0, failAt |-> 0, perr |-> Nil,
     ran |-> TRUE, src |-> NoSrc, failed |-> FALSE, cb |-> 0, once |-> FALSE,
     header |-> <<>>, meta |-> NoMeta, dropped |-> TRUE]

\* the stream the duck client's Conn.Query builds over the backend's rows
RowsStream(rows, failAt) ==
    [NoStream EXCEPT !.kind = "rows", !.items = rows, !.failAt = failAt,
                     !.dropped = FALSE]

\* builders.NextSingle(value) under the stream builder
NextSingle(value) ==
    [NoStream EXCEPT !.kind = "single", !.items = <<value>>, !.dropped = FALSE]

\* builders.NextYield(fn) under the stream builder: nothing runs yet
NextYield(src) ==
    [NoStream EXCEPT !.kind = "yield", !.ran = FALSE, !.src = src,
                     !.dropped = FALSE]

\* the stream builder's WithHeader(header)
WithHeader(s, header) == [s EXCEPT !.header = header]

\* the stream builder's WithMeta(meta)
WithMeta(s, meta) == [s EXCEPT !.meta = meta]

\* rows.SetCallback(cb)
SetCallback(s, conn) == [s EXCEPT !.cb = conn]

\* how often triggering the cleanup of s runs its callback (at most once
\* per stream: the trigger is guarded by the once flag)
CleanupRuns(s) == IF s.cb # 0 /\ ~s.once THEN 1 ELSE 0

Cleanup(s) == [s EXCEPT !.once = TRUE]

\* -------------------------------------------------------------- producers
RECURSIVE YieldBatchesReturnsEarly(_)
\* the loop leaving at the first field that is no array instead of
\* going on to the next field
YieldBatchesReturnsEarly(order) ==
    IF order = <<>> THEN <<>>
    ELSE LET b == order[1]
         IN  IF ~b.arr THEN <<>>
             ELSE [i \in 1..Len(b.items) |-> newMongoResponse(b.items[i])]
                      \o YieldBatchesReturnsEarly(Tail(order))

RECURSIVE YieldBatches(_)
\* mongo.go:127-135: the fields of the cursor document in the order the map
\* iteration visits them; an array field yields its items wrapped, in
\* order, and any other field is skipped
YieldBatches(order) ==
    IF order = <<>> THEN <<>>
    ELSE LET b == order[1]
             batch == IF b.arr
                      THEN [i \in 1..Len(b.items) |-> newMongoResponse(b.items[i])]
                      ELSE <<>>
         IN  batch \o YieldBatches(Tail(order))

\* mongo.go:121-137: the function Query hands to NextYield, as the outcome
\* of running it: the values it yields, the error it returns, and whether
\* it panics.  cur.(bson.M) is the one-result form of the type assertion:
\* it panics when cur is no bson.M.  The ok tested on line 123 is the ok of
\* line 119 (the map lookup), which is true on this branch.
MongoProducer(cur, ok, order) ==
    IF ~cur.doc THEN [emit |-> <<>>, err |-> Nil, panic |-> TRUE]
    ELSE IF ~ok THEN [emit |-> <<>>, err |-> ErrMalformedReply, panic |-> FALSE]
    ELSE [emit |-> YieldBatches(order), err |-> Nil, panic |-> FALSE]

\* the outcome of running the producer of a yield stream
RunProducer(src, order) ==
    IF src.kind = "cursor" THEN MongoProducer(src.cur, TRUE, order)
    ELSE [emit |-> src.emit, err |-> src.err, panic |-> FALSE]

\* the orders in which the producer of s may visit the cursor's fields
Orders(s) ==
    IF s.kind = "yield" /\ ~s.ran /\ s.src.kind = "cursor" /\ s.src.cur.doc
    THEN Perms(s.src.cur.fields)
    ELSE {<<>>}

\* ------------------------------------------------- stream operations
\* first use of a yield stream drives its producer to completion and
\* buffers what it emitted and the error it returned
Drive(s, order) ==
    IF s.ran THEN [s |-> s, panic |-> FALSE]
    ELSE LET out == RunProducer(s.src, order)
         IN  [s |-> [s EXCEPT !.ran = TRUE, !.items = out.emit, !.perr = out.err],
              panic |-> out.panic]

\* whether one more row is obtainable from a driven stream
Obtainable(s) ==
    CASE s.kind = "rows" -> ~s.once /\ ~s.failed /\ s.pos < Len(s.items)
      [] s.kind = "single" -> s.pos = 0
      [] s.kind = "yield" -> s.pos < Len(s.items)
      [] OTHER -> FALSE

\* a HasNext that looks by pulling: it moves the position past the row it saw
HasNextConsumes(s, order) ==
    LET d == Drive(s, order)
    IN  IF d.panic THEN [s |-> s, ans |-> FALSE, runs |-> 0, panic |-> TRUE]
        ELSE IF Obtainable(d.s)
        THEN [s |-> [d.s EXCEPT !.pos = d.s.pos + 1], ans |-> TRUE, runs |-> 0,
              panic |-> FALSE]
        ELSE [s |-> Cleanup(d.s), ans |-> FALSE, runs |-> CleanupRuns(d.s),
              panic |-> FALSE]

\* HasNext(): the answer, the stream afterwards, how often the cleanup
\* callback ran, and whether the call panicked.  Exhaustion triggers the
\* cleanup.
HasNext(s, order) ==
    LET d == Drive(s, order)
    IN  IF d.panic THEN [s |-> s, ans |-> FALSE, runs |-> 0, panic |-> TRUE]
        ELSE IF Obtainable(d.s)
        THEN [s |-> d.s, ans |-> TRUE, runs |-> 0, panic |-> FALSE]
        ELSE [s |-> Cleanup(d.s), ans |-> FALSE, runs |-> CleanupRuns(d.s),
              panic |-> FALSE]

\* a Next that reports every failure as exhaustion
NextFailsExhausted(s, err) ==
    [s |-> Cleanup(s), row |-> <<>>, err |-> ErrExhausted, runs |-> CleanupRuns(s),
     panic |-> FALSE]

\* a Next that fails with err: the stream has ended, the cleanup is triggered
NextFails(s, err) ==
    [s |-> Cleanup(s), row |-> <<>>, err |-> err, runs |-> CleanupRuns(s),
     panic |-> FALSE]

\* a Next that hands out the row at the stream's position
NextRow(s) ==
    [s |-> [s EXCEPT !.pos = s.pos + 1], row |-> <<s.items[s.pos + 1]>>,
     err |-> Nil, runs |-> 0, panic |-> FALSE]

\* Next(): the row and the error it returns, the stream afterwards, how
\* often the cleanup callback ran, and whether the call panicked
Next(s, order) ==
    LET d == Drive(s, order)
        s1 == d.s
    IN  IF d.panic
        THEN [s |-> s, row |-> <<>>, err |-> Nil, runs |-> 0, panic |-> TRUE]
        ELSE IF Obtainable(s1)
        THEN IF s1.kind = "rows" /\ s1.pos + 1 = s1.failAt
             THEN NextFails([s1 EXCEPT !.failed = TRUE], ErrScan)
             ELSE NextRow(s1)
        ELSE IF s1.kind = "yield" /\ s1.perr # Nil
        THEN NextFails([s1 EXCEPT !.failed = TRUE], s1.perr)
        ELSE NextFails(s1, ErrExhausted)

\* Close(): triggers the cleanup
Close(s) == [s |-> Cleanup(s), runs |-> CleanupRuns(s)]

\* ------------------------------------------------------------ duck driver
\* the deferred function without its test of err: it closes on every return
DeferredCloseAlways(err) == 1

\* the deferred function testing an err that the later := shadowed: it
\* never sees the error of con.Query
DeferredCloseShadowed(err) == 0

\* part_000:50-54: the deferred function closes the connection iff the
\* function-level err is set when Query returns; how many times it closes
DeferredClose(err) == IF err # Nil THEN 1 ELSE 0

\* Query returning rows without the SetCallback call
RegisterCleanupMissing(rows, conn) == rows

\* part_000:60: the connection-closing callback becomes the stream's cleanup
RegisterCleanup(rows, conn) == SetCallback(rows, conn)

\* part_000:42-62.  connErr: what c.c.Conn(ctx) returns; queryErr, rows,
\* failAt: what con.Query(ctx, query) returns; conn: the connection Conn
\* hands out.  Result: the stream and error returned, the connection
\* acquired (0: none) and how often Query itself closed it.
DuckQuery(connErr, queryErr, rows, failAt, conn) ==
    IF connErr # Nil
    THEN [stream |-> NoStream, err |-> connErr, conn |-> 0, closed |-> 0]
    ELSE IF queryErr # Nil
    THEN [stream |-> NoStream, err |-> queryErr, conn |-> conn,
          closed |-> DeferredClose(queryErr)]
    ELSE [stream |-> RegisterCleanup(RowsStream(rows, failAt), conn), err |-> Nil,
          conn |-> conn, closed |-> DeferredClose(Nil)]

\* the entry with the name put into both fields
StructureEntrySchemaName(name) == [Name |-> name, Schema |-> name, Type |-> "table"]

\* part_000:81-85 and mongo.go:170-174: one catalog entry
StructureEntry(name) == [Name |-> name, Schema |-> "", Type |-> "table"]

RECURSIVE DrainTables(_, _, _)
\* part_000:72-88: the HasNext/Next loop of Structure over the stream s,
\* with the entries gathered so far and the cleanup runs seen so far
DrainTables(s, schema, runs) ==
    LET h == HasNext(s, <<>>)
        n == Next(h.s, <<>>)
    IN  IF ~h.ans
        THEN [schema |-> schema, err |-> Nil, runs |-> runs + h.runs]
        ELSE IF n.err # Nil
        THEN [schema |-> <<>>, err |-> n.err, runs |-> runs + n.runs]
        ELSE DrainTables(n.s, Append(schema, StructureEntry(n.row[1])),
                         runs + n.runs)

\* part_000:64-89
DuckStructure(connErr, queryErr, rows, failAt, conn) ==
    LET q == DuckQuery(connErr, queryErr, rows, failAt, conn)
        d == DrainTables(q.stream, <<>>, 0)
    IN  IF q.err # Nil
        THEN [schema |-> <<>>, err |-> q.err, conn |-> q.conn, closed |-> q.closed,
              queried |-> FALSE]
        ELSE [schema |-> d.schema, err |-> d.err, conn |-> q.conn,
              closed |-> q.closed + d.runs, queried |-> TRUE]

\* ----------------------------------------------------------- mongo driver
\* what the server answers to ListDatabaseNames / ListCollectionNames
NameLists ==
    {[err |-> Nil, names |-> s] : s \in SeqsUpTo(DbNames, Cardinality(DbNames))}
        \cup {[err |-> ErrConn, names |-> <<>>]}

\* a getCurrentDatabase that returns the default without storing it
getCurrentDatabaseForgets(db, list) ==
    IF db # "" THEN [name |-> db, err |-> Nil, dbName |-> db, asked |-> FALSE]
    ELSE IF list.err # Nil
    THEN [name |-> "", err |-> ErrSelectDefault, dbName |-> db, asked |-> TRUE]
    ELSE IF Len(list.names) < 1
    THEN [name |-> "", err |-> ErrNoDatabases, dbName |-> db, asked |-> TRUE]
    ELSE [name |-> list.names[1], err |-> Nil, dbName |-> db, asked |-> TRUE]

\* a getCurrentDatabase that goes on with the empty name when no default
\* can be selected
getCurrentDatabaseGoesOn(db, list) ==
    IF db # "" THEN [name |-> db, err |-> Nil, dbName |-> db, asked |-> FALSE]
    ELSE IF list.err # Nil \/ Len(list.names) < 1
    THEN [name |-> "", err |-> Nil, dbName |-> db, asked |-> TRUE]
    ELSE [name |-> list.names[1], err |-> Nil, dbName |-> list.names[1], asked |-> TRUE]

\* mongo.go:79-94: the name returned, the error, c.dbName afterwards, and
\* whether the server was asked for its database names
getCurrentDatabase(db, list) ==
    IF db # "" THEN [name |-> db, err |-> Nil, dbName |-> db, asked |-> FALSE]
    ELSE IF list.err # Nil
    THEN [name |-> "", err |-> ErrSelectDefault, dbName |-> db, asked |-> TRUE]
    ELSE IF Len(list.names) < 1
    THEN [name |-> "", err |-> ErrNoDatabases, dbName |-> db, asked |-> TRUE]
    ELSE [name |-> list.names[1], err |-> Nil, dbName |-> list.names[1], asked |-> TRUE]

\* the two branches of the cursor test exchanged
MongoNextFuncsSwapped(resp) ==
    IF ~resp.hasCursor
    THEN NextYield([kind |-> "cursor", cur |-> [doc |-> TRUE, fields |-> {}],
                    emit |-> <<>>, err |-> Nil])
    ELSE NextSingle(newMongoResponse(resp))

\* mongo.go:116-140: the pull functions chosen for the reply
MongoNextFuncs(resp) ==
    IF resp.hasCursor
    THEN NextYield([kind |-> "cursor", cur |-> resp.cursor, emit |-> <<>>, err |-> Nil])
    ELSE NextSingle(newMongoResponse(resp))

\* a header of two columns over the one-cell rows
MongoHeaderTwoColumns == <<"Reply", "Ok">>

\* mongo.go:145-148
MongoHeader == <<"Reply">>
MongoMeta == [SchemaType |-> "SchemaLess"]

\* mongo.go:96-152.  list: the server's database names; marshalErr: what
\* bson.UnmarshalExtJSON returns; cmdErr, resp: what RunCommand(...).Decode
\* returns.
MongoQuery(db, list, marshalErr, cmdErr, resp) ==
    LET cur == getCurrentDatabase(db, list)
    IN  IF cur.err # Nil
        THEN [stream |-> NoStream, err |-> cur.err, dbName |-> cur.dbName, name |-> cur.name,
              asked |-> cur.asked, ran |-> FALSE]
        ELSE IF marshalErr # Nil
        THEN [stream |-> NoStream, err |-> ErrMarshal, dbName |-> cur.dbName, name |-> cur.name,
              asked |-> cur.asked, ran |-> FALSE]
        ELSE IF cmdErr # Nil
        THEN [stream |-> NoStream, err |-> cmdErr, dbName |-> cur.dbName, name |-> cur.name,
              asked |-> cur.asked, ran |-> TRUE]
        ELSE [stream |-> WithMeta(WithHeader(MongoNextFuncs(resp), MongoHeader), MongoMeta),
              err |-> Nil, dbName |-> cur.dbName, name |-> cur.name,
              asked |-> cur.asked, ran |-> TRUE]

\* mongo.go:154-178.  colls: what ListCollectionNames returns.
MongoStructure(db, list, colls) ==
    LET cur == getCurrentDatabase(db, list)
    IN  IF cur.err # Nil
        THEN [schema |-> <<>>, err |-> cur.err, dbName |-> cur.dbName, name |-> cur.name,
              asked |-> cur.asked, listed |-> FALSE]
        ELSE IF colls.err # Nil
        THEN [schema |-> <<>>, err |-> colls.err, dbName |-> cur.dbName, name |-> cur.name,
              asked |-> cur.asked, listed |-> TRUE]
        ELSE [schema |-> [i \in 1..Len(colls.names) |-> StructureEntry(colls.names[i])],
              err |-> Nil, dbName |-> cur.dbName, name |-> cur.name,
              asked |-> cur.asked, listed |-> TRUE]

\* what the server answers to ListCollectionNames
CollectionLists ==
    {[err |-> Nil, names |-> s] : s \in SeqsUpTo(TableNames, MaxRows)}
        \cup {[err |-> ErrConn, names |-> <<>>]}

\* what the server answers when asked for the names that do not match name
OtherNames(name) ==
    {[err |-> ErrConn, names |-> <<>>]}
        \cup {[err |-> Nil, names |-> s] : s \in SeqsUpTo(DbNames \ {name}, 1)}

\* mongo.go:184-207.  all: what the filtered ListDatabaseNames returns.
MongoListDatabases(db, list, all) ==
    LET cur == getCurrentDatabase(db, list)
    IN  IF cur.err # Nil
        THEN [current |-> "", available |-> <<>>, err |-> cur.err, dbName |-> cur.dbName,
              name |-> cur.name, asked |-> cur.asked, ran |-> FALSE]
        ELSE IF all.err # Nil
        THEN [current |-> "", available |-> <<>>, err |-> ErrListDatabases,
              dbName |-> cur.dbName, name |-> cur.name, asked |-> cur.asked, ran |-> TRUE]
        ELSE [current |-> cur.name, available |-> all.names, err |-> Nil,
              dbName |-> cur.dbName, name |-> cur.name, asked |-> cur.asked, ran |-> TRUE]

\* mongo.go:209-212: c.dbName afterwards and the error returned
SelectDatabase(db, name) == [dbName |-> name, err |-> Nil]

\* ------------------------------------------------------- envelope and gob
\* mongo.go:27-42: the concrete types init registers with gob
GobRegistered ==
    {"*mongoResponse", "bson.A", "bson.M", "bson.D", "primitive.ObjectID",
     "primitive.Binary", "primitive.Regex", "primitive.CodeWithScope",
     "primitive.Timestamp", "primitive.Decimal128", "primitive.DBPointer"}

\* mongo.go:32-43: bson types init leaves unregistered
GobUnregistered == {"primitive.DateTime", "primitive.JavaScript", "primitive.Symbol"}

\* the types values are drawn from: containers whose elements are held in
\* interface-typed slots, and plain types
GobContainers == {"bson.M", "bson.A"}
GobPlain == {"primitive.ObjectID", "primitive.Timestamp", "primitive.Regex"} \cup GobUnregistered

\* a value: its concrete type, and for a container the concrete types of
\* the elements it holds ("nil": the envelope wraps no value)
GobValues ==
    {[type |-> ty, elems |-> <<>>] : ty \in GobPlain \cup GobContainers \cup {"nil"}}
        \cup {[type |-> ty, elems |-> <<e>>] : ty \in GobContainers, e \in GobPlain}

NoWire == [form |-> "none", type |-> "nil", val |-> [type |-> "nil", elems |-> <<>>]]

\* whether v and everything it holds is of a registered concrete type
Registered(v) ==
    v.type \in GobRegistered /\ \A i \in 1..Len(v.elems) : v.elems[i] \in GobRegistered

\* encoding/gob, Encoder.Encode(e any) as called on mongo.go:242 with the
\* wrapped value itself: reflect.ValueOf(e) is the concrete value, so the
\* value goes on the wire under its concrete type, not as an interface
\* value (that form is sent only for Encode(&iface)).  A nil value cannot
\* be encoded; an element held in an interface slot must be of a
\* registered type.
GobEncodeValue(v) ==
    IF v.type = "nil" THEN [err |-> "gob: cannot encode nil value", wire |-> NoWire]
    ELSE IF \E i \in 1..Len(v.elems) : v.elems[i] \notin GobRegistered
    THEN [err |-> "gob: type not registered for interface", wire |-> NoWire]
    ELSE [err |-> Nil, wire |-> [form |-> "concrete", type |-> v.type, val |-> v]]

\* encoding/gob, Decoder.Decode(&iface) as called on mongo.go:253 with a
\* pointer to the interface-typed field: a local interface type can only be
\* decoded from a remote interface value, whose type name must be registered
GobDecodeInterface(wire, old) ==
    IF wire.form # "interface"
    THEN [err |-> "gob: local interface type can only be decoded from remote interface type",
          value |-> old]
    ELSE IF wire.type \notin GobRegistered
    THEN [err |-> "gob: name not registered for interface", value |-> old]
    ELSE [err |-> Nil, value |-> wire.val]

\* mongo.go:238-247
GobEncode(mr) ==
    LET e == GobEncodeValue(mr.value)
    IN  IF e.err # Nil THEN [bytes |-> NoWire, err |-> e.err]
        ELSE [bytes |-> e.wire, err |-> e.err]

\* mongo.go:249-258: the envelope afterwards and the error returned
GobDecode(mr, buf) ==
    LET d == GobDecodeInterface(buf, mr.value)
    IN  [mr |-> [value |-> d.value], err |-> d.err]

\* ------------------------------------------------- envelope: JSON, display
\* scalars an envelope may wrap, by the token encoding/json and fmt write
\* for them; a NaN float has no JSON form
JsonScalars ==
    {[kind |-> "num", tok |-> "1", elems |-> <<>>],
     [kind |-> "str", tok |-> "s", elems |-> <<>>],
     [kind |-> "nan", tok |-> "NaN", elems |-> <<>>]}

\* the values an envelope may wrap: a scalar, or an array (bson.A) of scalars
JsonValues ==
    JsonScalars \cup
        {[kind |-> "arr", tok |-> "", elems |-> s] :
            s \in {<<>>} \cup {<<a>> : a \in JsonScalars}
                  \cup {<<a, b>> : a \in JsonScalars, b \in JsonScalars}}

ErrUnsupportedValue == "json: unsupported value: NaN"

\* whether encoding/json can encode v
JsonEncodable(v) ==
    v.kind # "nan" /\ \A i \in 1..Len(v.elems) : v.elems[i].kind # "nan"

\* the JSON token of a scalar: strings are quoted
JsonToken(v) == IF v.kind = "str" THEN <<"\"", v.tok, "\"">> ELSE <<v.tok>>

RECURSIVE JsonElems(_, _)
\* the elements of an array, each after the separator sep
JsonElems(elems, sep) ==
    IF elems = <<>> THEN <<>>
    ELSE sep \o JsonToken(elems[1])
           \o (IF Len(elems) > 1 THEN <<",">> ELSE <<>>)
           \o JsonElems(Tail(elems), sep)

\* encoding/json, json.Marshal(v): the compact form, or an error
jsonMarshal(v) ==
    IF ~JsonEncodable(v) THEN [bytes |-> <<>>, err |-> ErrUnsupportedValue]
    ELSE IF v.kind = "arr"
    THEN [bytes |-> <<"[">> \o JsonElems(v.elems, <<>>) \o <<"]">>, err |-> Nil]
    ELSE [bytes |-> JsonToken(v), err |-> Nil]

\* encoding/json, json.MarshalIndent(v, "", "  "): every element of a
\* non-empty array on a line of its own, indented by two spaces
jsonMarshalIndent(v) ==
    IF ~JsonEncodable(v) THEN [bytes |-> <<>>, err |-> ErrUnsupportedValue]
    ELSE IF v.kind = "arr" /\ v.elems # <<>>
    THEN [bytes |-> <<"[">> \o JsonElems(v.elems, <<"\n", "  ">>) \o <<"\n", "]">>,
          err |-> Nil]
    ELSE jsonMarshal(v)

RECURSIVE SprintElems(_)
\* the elements of an array as fmt writes them: separated by one space
SprintElems(elems) ==
    IF elems = <<>> THEN <<>>
    ELSE <<elems[1].tok>> \o (IF Len(elems) > 1 THEN <<" ">> ELSE <<>>)
           \o SprintElems(Tail(elems))

\* fmt.Sprint(v): the default form, which exists for every value
fmtSprint(v) ==
    IF v.kind = "arr" THEN <<"[">> \o SprintElems(v.elems) \o <<"]">>
    ELSE <<v.tok>>

\* a String that gives up when the indented rendering fails
StringNoFallback(mr) ==
    LET parsed == jsonMarshalIndent(mr.value)
    IN  IF parsed.err # Nil THEN <<>> ELSE parsed.bytes

\* mongo.go:226-232
String(mr) ==
    LET parsed == jsonMarshalIndent(mr.value)
    IN  IF parsed.err # Nil THEN fmtSprint(mr.value) ELSE parsed.bytes

\* a MarshalJSON that encodes the envelope, a struct without exported
\* fields, instead of the value in it
MarshalJSONOfStruct(mr) == [bytes |-> <<"{", "}">>, err |-> Nil]

\* mongo.go:234-236
MarshalJSON(mr) == jsonMarshal(mr.value)

\* ------------------------------------------------ adapter registry, Connect
\* identifiers a caller may name; the first four are those of the init
\* functions (identifiers are case-sensitive: "Mongo" is not "mongo")
Identifiers == {"mongo", "mongodb", "duck", "duckdb", "Mongo", "x"}
NoAdapter == "none"
ErrUnknownAdapter == "UnknownAdapter"
ErrAlreadyRegistered == "AlreadyRegistered"
ErrInvalidUrl == "mongo: invalid url"
ErrOpen == "unable to connect to duckdb database"

EmptyRegistry == [id \in Identifiers |-> NoAdapter]

\* a register that lets a later call take over an identifier
registerOverwrites(reg, adapter, ids) ==
    [reg |-> [id \in Identifiers |-> IF id \in Range(ids) THEN adapter ELSE reg[id]],
     err |-> Nil]

\* register(adapter, name, aliases...): rejected when one of the
\* identifiers is taken, otherwise every identifier maps to the adapter
register(reg, adapter, ids) ==
    IF \E i \in 1..Len(ids) : reg[ids[i]] # NoAdapter
    THEN [reg |-> reg, err |-> ErrAlreadyRegistered]
    ELSE [reg |-> [id \in Identifiers |-> IF id \in Range(ids) THEN adapter ELSE reg[id]],
          err |-> Nil]

\* the init of mongo.go registering the name without its alias
mongoInitNoAlias(reg) == register(reg, "Mongo", <<"mongo">>).reg

\* mongo.go:22-23: the error of register is dropped
mongoInit(reg) == register(reg, "Mongo", <<"mongo", "mongodb">>).reg

\* part_000:17-19
duckInit(reg) == register(reg, "Duck", <<"duck", "duckdb">>).reg

\* the registry once the init functions of the package have run
InitRegistry == mongoInit(duckInit(EmptyRegistry))

\* connection strings, as what url.Parse makes of them (an error, or a URL
\* with a path: "", "/" or "/" and a database name) and whether the
\* backend's own connect call then fails
ConnStrings ==
    {[parseErr |-> TRUE, path |-> <<>>, connErr |-> FALSE]}
    \cup {[parseErr |-> FALSE, path |-> p, connErr |-> c] :
            p \in {<<>>, <<"/">>} \cup {<<"/", n>> : n \in DbNames}, c \in BOOLEAN}

NoConnString == [parseErr |-> FALSE, path |-> <<>>, connErr |-> FALSE]

\* the string a path without its first byte is (names are single tokens)
PathRest(path) == IF Len(path) >= 2 THEN path[2] ELSE ""

\* mongo.go:50-67: the driver made (its dbName), the error returned and
\* whether the call panics.  u.Path[1:] is evaluated after mongo.Connect
\* succeeded; on an empty Path the slice expression is out of range.
MongoConnect(u) ==
    IF u.parseErr
    THEN [driver |-> "none", dbName |-> "", err |-> ErrInvalidUrl, panic |-> FALSE]
    ELSE IF u.connErr
    THEN [driver |-> "none", dbName |-> "", err |-> ErrConn, panic |-> FALSE]
    ELSE IF Len(u.path) < 1
    THEN [driver |-> "none", dbName |-> "", err |-> Nil, panic |-> TRUE]
    ELSE [driver |-> "mongo", dbName |-> PathRest(u.path), err |-> Nil, panic |-> FALSE]

\* part_000:25-34: sql.Open does not look at the URL's parts
DuckConnect(u) ==
    IF u.connErr
    THEN [driver |-> "none", dbName |-> "", err |-> ErrOpen, panic |-> FALSE]
    ELSE [driver |-> "duck", dbName |-> "", err |-> Nil, panic |-> FALSE]

\* Connect(identifier, connectionString): the lookup, then the adapter
Connect(reg, id, u) ==
    IF reg[id] = NoAdapter
    THEN [driver |-> "none", dbName |-> "", err |-> ErrUnknownAdapter, panic |-> FALSE]
    ELSE IF reg[id] = "Mongo" THEN MongoConnect(u)
    ELSE DuckConnect(u)

\* ------------------------------------------------------------------ state
VARIABLES
    closes,     \* per connection of the duck client: how often it was closed
    nconn,      \* connections the duck client has handed out
    dbName,     \* mongoDriver.dbName
    rs,         \* the stream the caller holds (dropped: none)
    got,        \* what the Next calls on rs returned, in call order
    lastOp,     \* the call made last
    lastHas,    \* the answer of the latest HasNext on rs
    streak,     \* HasNext calls on rs since the latest other call
    lastQ,      \* what the latest Query returned
    structure,  \* what the latest Structure returned
    gobr,       \* the latest binary round trip of an envelope
    render,     \* the latest JSON encoding and display rendering of an envelope
    dbUse,      \* the database the latest mongo call worked on, and how it got it
    registry,   \* the adapter registry: identifier -> adapter
    lastReg,    \* what the latest Register call was given and returned
    lastConn,   \* what the latest Connect call was given and returned
    panicked    \* a call panicked: the process is gone

vars ==
    <<closes, nconn, dbName, rs, got, lastOp, lastHas, streak, lastQ, structure, gobr,
      render, dbUse, registry, lastReg, lastConn, panicked>>

\* the state of the registry and of its callers
regVars == <<registry, lastReg, lastConn>>

\* the state of the drivers, their streams and their callers
driverVars ==
    <<closes, nconn, rs, got, lastHas, streak, lastQ, structure, gobr, render, dbUse>>

NoReply == [hasCursor |-> FALSE, cursor |-> NoCursor, ok |-> 0]
NoQuery == [driver |-> "none", err |-> Nil, stream |-> FALSE, conn |-> 0, resp |-> NoReply]
NoStructure ==
    [driver |-> "none", tables |-> <<>>, schema |-> <<>>, err |-> Nil, conn |-> 0,
     queried |-> FALSE]
NilValue == [type |-> "nil", elems |-> <<>>]
NoGob == [done |-> FALSE, v |-> NilValue, encErr |-> Nil, decErr |-> Nil, out |-> NilValue]
NoRender ==
    [done |-> FALSE, v |-> [kind |-> "num", tok |-> "1", elems |-> <<>>],
     json |-> [bytes |-> <<>>, err |-> Nil], str |-> <<>>]
NoUse ==
    [done |-> FALSE, op |-> "none", asked |-> FALSE, listErr |-> Nil, first |-> "",
     name |-> "", ran |-> FALSE, err |-> Nil]
NoRegister == [done |-> FALSE, adapter |-> NoAdapter, ids |-> <<>>, err |-> Nil]
NoConnect ==
    [done |-> FALSE, id |-> "", url |-> NoConnString, driver |-> "none", dbName |-> "",
     err |-> Nil]

Init ==
    /\ closes = [c \in 1..MaxConn |-> 0]
    /\ nconn = 0
    /\ dbName \in {""} \cup DbNames
    /\ rs = NoStream
    /\ got = <<>>
    /\ lastOp = "none"
    /\ lastHas = "none"
    /\ streak = 0
    /\ lastQ = NoQuery
    /\ structure = NoStructure
    /\ gobr = NoGob
    /\ render = NoRender
    /\ dbUse = NoUse
    /\ registry = InitRegistry
    /\ lastReg = NoRegister
    /\ lastConn = NoConnect
    /\ panicked = FALSE

\* what a mongo call did about its database: list is the server's answer
\* to the unfiltered ListDatabaseNames, looked at only when the call asked
Use(op, list, name, asked, ran, err) ==
    [done |-> TRUE, op |-> op, asked |-> asked,
     listErr |-> IF asked THEN list.err ELSE Nil,
     first |-> IF asked /\ list.err = Nil /\ Len(list.names) >= 1 THEN list.names[1]
               ELSE "",
     name |-> name, ran |-> ran, err |-> err]

\* con.Close() called n times on connection c
Closed(c, n) == IF c = 0 \/ n = 0 THEN closes ELSE [closes EXCEPT ![c] = @ + n]

\* the caller holds no stream and the process is alive
Idle == ~panicked /\ rs.dropped

\* the caller holds a stream and the process is alive
Holding == ~panicked /\ ~rs.dropped

\* what the duck backend may answer to one Query: Conn fails, or Conn
\* succeeds and con.Query fails, or both succeed with some rows of which one
\* may fail to scan (what is not reached is left at a fixed value)
DuckAnswers ==
    {[connErr |-> e, queryErr |-> Nil, rows |-> <<>>, failAt |-> 0] :
        e \in {ErrConn, ErrCancelled}}
    \cup {[connErr |-> Nil, queryErr |-> e, rows |-> <<>>, failAt |-> 0] :
        e \in {ErrQuery, ErrCancelled}}
    \cup UNION {{[connErr |-> Nil, queryErr |-> Nil, rows |-> r, failAt |-> f] :
                    f \in 0..Len(r)} : r \in SeqsUpTo(TableNames, MaxRows)}

\* duckDriver.Query(ctx, query)
DuckQueryCall ==
    /\ Idle
    /\ nconn < MaxConn
    /\ \E a \in DuckAnswers :
         LET q == DuckQuery(a.connErr, a.queryErr, a.rows, a.failAt, nconn + 1)
         IN  /\ nconn' = IF q.conn # 0 THEN nconn + 1 ELSE nconn
             /\ closes' = Closed(q.conn, q.closed)
             /\ rs' = q.stream
             /\ lastQ' = [driver |-> "duck", err |-> q.err, stream |-> q.err = Nil,
                          conn |-> q.conn, resp |-> NoReply]
    /\ got' = <<>>
    /\ lastOp' = "Query"
    /\ lastHas' = "none"
    /\ streak' = 0
    /\ structure' = NoStructure
    /\ gobr' = NoGob
    /\ render' = NoRender
    /\ dbUse' = NoUse
    /\ UNCHANGED <<dbName, panicked>>
    /\ UNCHANGED regVars

\* what the server may answer when the default database is looked up: it
\* is asked only while no database is set
ListAnswers(db) == IF db = "" THEN NameLists ELSE {[err |-> Nil, names |-> <<>>]}

\* whether getCurrentDatabase succeeds on that answer
Selects(db, list) == getCurrentDatabase(db, list).err = Nil

\* what parsing the query and running the command may give (what is not
\* reached is left at a fixed value)
CommandAnswers ==
    {[marshalErr |-> ErrMarshal, cmdErr |-> Nil, resp |-> NoReply]}
    \cup {[marshalErr |-> Nil, cmdErr |-> e, resp |-> NoReply] : e \in {ErrQuery, ErrCancelled}}
    \cup {[marshalErr |-> Nil, cmdErr |-> Nil, resp |-> r] : r \in Replies}

\* mongoDriver.Query(ctx, query)
MongoQueryCall ==
    /\ Idle
    /\ \E list \in ListAnswers(dbName) :
         \E c \in IF Selects(dbName, list) THEN CommandAnswers
                  ELSE {[marshalErr |-> Nil, cmdErr |-> Nil, resp |-> NoReply]} :
            LET q == MongoQuery(dbName, list, c.marshalErr, c.cmdErr, c.resp)
            IN  /\ dbName' = q.dbName
                /\ rs' = q.stream
                /\ lastQ' = [driver |-> "mongo", err |-> q.err, stream |-> q.err = Nil,
                             conn |-> 0,
                             resp |-> IF q.err = Nil THEN c.resp ELSE NoReply]
                /\ dbUse' = Use("Query", list, q.name, q.asked, q.ran, q.err)
    /\ got' = <<>>
    /\ lastOp' = "Query"
    /\ lastHas' = "none"
    /\ streak' = 0
    /\ structure' = NoStructure
    /\ gobr' = NoGob
    /\ render' = NoRender
    /\ UNCHANGED <<closes, nconn, panicked>>
    /\ UNCHANGED regVars

\* builders.NextYield(fn) for a producer fn that emits some values and then
\* returns, with or without an error
YieldCall ==
    /\ Idle
    /\ \E k \in 0..MaxEmit, err \in {Nil, ErrProducer} :
         rs' = NextYield([kind |-> "fn", cur |-> NoCursor,
                          emit |-> [i \in 1..k |-> i], err |-> err])
    /\ lastQ' = [NoQuery EXCEPT !.driver = "fn", !.stream = TRUE]
    /\ got' = <<>>
    /\ lastOp' = "Query"
    /\ lastHas' = "none"
    /\ streak' = 0
    /\ structure' = NoStructure
    /\ gobr' = NoGob
    /\ render' = NoRender
    /\ dbUse' = NoUse
    /\ UNCHANGED <<closes, nconn, dbName, panicked>>
    /\ UNCHANGED regVars

\* rs.HasNext()
HasNextCall ==
    /\ Holding
    /\ \E order \in Orders(rs) :
         LET h == HasNext(rs, order)
         IN  /\ panicked' = h.panic
             /\ rs' = h.s
             /\ closes' = Closed(rs.cb, h.runs)
             /\ lastHas' = IF h.panic THEN lastHas ELSE IF h.ans THEN "true" ELSE "false"
    /\ lastOp' = "HasNext"
    /\ streak' = IF streak < MaxStreak THEN streak + 1 ELSE streak
    /\ UNCHANGED <<nconn, dbName, got, lastQ, structure, gobr, render, dbUse>>
    /\ UNCHANGED regVars

\* rs.Next()
NextCall ==
    /\ Holding
    /\ Len(got) < MaxNext
    /\ \E order \in Orders(rs) :
         LET n == Next(rs, order)
         IN  /\ panicked' = n.panic
             /\ rs' = n.s
             /\ closes' = Closed(rs.cb, n.runs)
             /\ got' = IF n.panic THEN got ELSE Append(got, [row |-> n.row, err |-> n.err])
    /\ lastOp' = "Next"
    /\ streak' = 0
    /\ UNCHANGED <<nconn, dbName, lastHas, lastQ, structure, gobr, render, dbUse>>
    /\ UNCHANGED regVars

\* rs.Close()
CloseCall ==
    /\ Holding
    /\ LET c == Close(rs)
       IN  /\ rs' = c.s
           /\ closes' = Closed(rs.cb, c.runs)
    /\ lastOp' = "Close"
    /\ streak' = 0
    /\ UNCHANGED <<nconn, dbName, got, lastHas, lastQ, structure, gobr, render, dbUse,
                   panicked>>
    /\ UNCHANGED regVars

\* the caller lets go of rs without closing it: the stream is destroyed,
\* which triggers its cleanup
Abandon ==
    /\ Holding
    /\ closes' = Closed(rs.cb, CleanupRuns(rs))
    /\ rs' = NoStream
    /\ got' = <<>>
    /\ lastOp' = "Abandon"
    /\ lastHas' = "none"
    /\ streak' = 0
    /\ lastQ' = NoQuery
    /\ dbUse' = NoUse
    /\ UNCHANGED <<nconn, dbName, structure, gobr, render, panicked>>
    /\ UNCHANGED regVars

\* duckDriver.Structure()
DuckStructureCall ==
    /\ Idle
    /\ nconn < MaxConn
    /\ \E a \in DuckAnswers :
         LET r == DuckStructure(a.connErr, a.queryErr, a.rows, a.failAt, nconn + 1)
         IN  /\ nconn' = IF r.conn # 0 THEN nconn + 1 ELSE nconn
             /\ closes' = Closed(r.conn, r.closed)
             /\ structure' = [driver |-> "duck",
                              tables |-> IF r.err = Nil THEN a.rows ELSE <<>>,
                              schema |-> r.schema, err |-> r.err, conn |-> r.conn,
                              queried |-> r.queried]
    /\ rs' = NoStream
    /\ got' = <<>>
    /\ lastOp' = "Structure"
    /\ lastHas' = "none"
    /\ streak' = 0
    /\ lastQ' = NoQuery
    /\ gobr' = NoGob
    /\ render' = NoRender
    /\ dbUse' = NoUse
    /\ UNCHANGED <<dbName, panicked>>
    /\ UNCHANGED regVars

\* mongoDriver.Structure()
MongoStructureCall ==
    /\ Idle
    /\ \E list \in ListAnswers(dbName) :
         \E colls \in IF Selects(dbName, list) THEN CollectionLists
                      ELSE {[err |-> Nil, names |-> <<>>]} :
            LET r == MongoStructure(dbName, list, colls)
            IN  /\ dbName' = r.dbName
                /\ structure' = [driver |-> "mongo",
                                 tables |-> IF r.err = Nil THEN colls.names ELSE <<>>,
                                 schema |-> r.schema, err |-> r.err, conn |-> 0,
                                 queried |-> r.listed]
                /\ dbUse' = Use("Structure", list, r.name, r.asked, r.listed, r.err)
    /\ rs' = NoStream
    /\ got' = <<>>
    /\ lastOp' = "Structure"
    /\ lastHas' = "none"
    /\ streak' = 0
    /\ lastQ' = NoQuery
    /\ gobr' = NoGob
    /\ render' = NoRender
    /\ UNCHANGED <<closes, nconn, panicked>>
    /\ UNCHANGED regVars

\* an envelope of v is gob-encoded and the bytes decoded into a fresh envelope
GobRoundTrip ==
    /\ Idle
    /\ \E v \in GobValues :
         LET e == GobEncode(newMongoResponse(v))
             d == GobDecode(newMongoResponse(NilValue), e.bytes)
         IN  gobr' = [done |-> TRUE, v |-> v, encErr |-> e.err,
                      decErr |-> IF e.err = Nil THEN d.err ELSE Nil,
                      out |-> IF e.err = Nil THEN d.mr.value ELSE NilValue]
    /\ rs' = NoStream
    /\ got' = <<>>
    /\ lastOp' = "Gob"
    /\ lastHas' = "none"
    /\ streak' = 0
    /\ lastQ' = NoQuery
    /\ structure' = NoStructure
    /\ render' = NoRender
    /\ dbUse' = NoUse
    /\ UNCHANGED <<closes, nconn, dbName, panicked>>
    /\ UNCHANGED regVars

\* mongoDriver.ListDatabases()
ListDatabasesCall ==
    /\ Idle
    /\ \E list \in ListAnswers(dbName) :
         \E all \in IF Selects(dbName, list)
                    THEN OtherNames(getCurrentDatabase(dbName, list).name)
                    ELSE {[err |-> Nil, names |-> <<>>]} :
            LET r == MongoListDatabases(dbName, list, all)
            IN  /\ dbName' = r.dbName
                /\ dbUse' = Use("ListDatabases", list, r.name, r.asked, r.ran, r.err)
    /\ rs' = NoStream
    /\ got' = <<>>
    /\ lastOp' = "ListDatabases"
    /\ lastHas' = "none"
    /\ streak' = 0
    /\ lastQ' = NoQuery
    /\ structure' = NoStructure
    /\ gobr' = NoGob
    /\ render' = NoRender
    /\ UNCHANGED <<closes, nconn, panicked>>
    /\ UNCHANGED regVars

\* mongoDriver.SelectDatabase(name)
SelectDatabaseCall ==
    /\ Idle
    /\ \E name \in {""} \cup DbNames :
         /\ dbName' = SelectDatabase(dbName, name).dbName
         /\ dbUse' = [NoUse EXCEPT !.op = "SelectDatabase", !.name = name]
    /\ rs' = NoStream
    /\ got' = <<>>
    /\ lastOp' = "SelectDatabase"
    /\ lastHas' = "none"
    /\ streak' = 0
    /\ lastQ' = NoQuery
    /\ structure' = NoStructure
    /\ gobr' = NoGob
    /\ render' = NoRender
    /\ UNCHANGED <<closes, nconn, panicked>>
    /\ UNCHANGED regVars

\* an envelope of v is encoded as JSON and rendered for display
RenderCall ==
    /\ Idle
    /\ \E v \in JsonValues :
         render' = [done |-> TRUE, v |-> v, json |-> MarshalJSON(newMongoResponse(v)),
                    str |-> String(newMongoResponse(v))]
    /\ rs' = NoStream
    /\ got' = <<>>
    /\ lastOp' = "Render"
    /\ lastHas' = "none"
    /\ streak' = 0
    /\ lastQ' = NoQuery
    /\ structure' = NoStructure
    /\ gobr' = NoGob
    /\ dbUse' = NoUse
    /\ UNCHANGED <<closes, nconn, dbName, panicked>>
    /\ UNCHANGED regVars

Next_ ==
    \/ DuckQueryCall
    \/ MongoQueryCall
    \/ YieldCall
    \/ HasNextCall
    \/ NextCall
    \/ CloseCall
    \/ Abandon
    \/ DuckStructureCall
    \/ MongoStructureCall
    \/ GobRoundTrip
    \/ ListDatabasesCall
    \/ SelectDatabaseCall
    \/ RenderCall

Spec == Init /\ [][Next_]_vars

\* Register(adapter, name, aliases...) called after the init functions
RegisterCall ==
    /\ ~panicked
    /\ \E adapter \in {"Mongo", "Duck"}, ids \in SeqsUpTo(Identifiers, 2) \ {<<>>} :
         LET r == register(registry, adapter, ids)
         IN  /\ registry' = r.reg
             /\ lastReg' = [done |-> TRUE, adapter |-> adapter, ids |-> ids, err |-> r.err]
    /\ lastConn' = NoConnect
    /\ lastOp' = "Register"
    /\ UNCHANGED <<dbName, panicked>>
    /\ UNCHANGED driverVars

\* Connect(identifier, connectionString)
ConnectCall ==
    /\ ~panicked
    /\ \E id \in Identifiers, u \in ConnStrings :
         LET c == Connect(registry, id, u)
         IN  /\ panicked' = c.panic
             /\ lastConn' = [done |-> TRUE, id |-> id, url |-> u, driver |-> c.driver,
                             dbName |-> c.dbName, err |-> c.err]
             /\ dbName' = IF c.driver = "mongo" THEN c.dbName ELSE dbName
    /\ lastReg' = NoRegister
    /\ lastOp' = "Connect"
    /\ UNCHANGED registry
    /\ UNCHANGED driverVars

NextReg ==
    \/ RegisterCall
    \/ ConnectCall

\* the registry and its callers: Register and Connect calls in any order
SpecReg == Init /\ [][NextReg]_vars

\* ----------------------------------------------------------------- claims
\* C1: the cleanup action of a stream (the connection-closing callback that
\* duckDriver.Query registers) runs at most once, whatever HasNext, Next and
\* Close calls are made: no connection is closed more than once.
C1_CleanupAtMostOnce == \A c \in 1..MaxConn : closes[c] <= 1

\* C1 witness: Close is called on a duck stream after a Next reported its
\* exhaustion, and the connection has been closed once.
C1_Witness ==
    /\ lastOp = "Close"
    /\ rs.kind = "rows"
    /\ rs.cb # 0
    /\ \E i \in 1..Len(got) : got[i].err = ErrExhausted
    /\ closes[rs.cb] = 1

\* the stream the caller holds has ended without a Close: a HasNext
\* answered false or a Next failed
EndedUnclosed ==
    /\ ~rs.dropped
    /\ lastOp \in {"HasNext", "Next"}
    /\ \/ lastOp = "HasNext" /\ lastHas = "false"
       \/ lastOp = "Next" /\ got # <<>> /\ got[Len(got)].err # Nil

\* C2: without any Close, the cleanup has run exactly once (a) when
\* duckDriver.Structure returns after having obtained its stream, on the
\* drained path and on the failed-Next path alike, (b) when the stream a
\* caller holds has ended by exhaustion or by an error, and (c) when the
\* caller abandons the stream it holds.
C2_ReleasedWithoutClose ==
    /\ [](/\ (structure.driver = "duck" /\ structure.queried)
                => closes[structure.conn] = 1
          /\ (EndedUnclosed /\ rs.cb # 0) => closes[rs.cb] = 1)
    /\ [][(lastOp' = "Abandon" /\ ~rs.dropped /\ rs.cb # 0)
             => closes'[rs.cb] = 1]_vars

\* C2 witness: Structure returned the error of a Next that failed
\* mid-stream, and its connection has been closed once.
C2_Witness ==
    /\ structure.driver = "duck"
    /\ structure.queried
    /\ structure.err = ErrScan
    /\ closes[structure.conn] = 1

\* the caller holds the stream of a successful mongo Query
MongoStreamHeld == ~rs.dropped /\ lastQ.driver = "mongo" /\ lastQ.stream

\* C3: the stream of a mongo reply without a "cursor" field is the
\* single-value stream: HasNext is true before any Next, the first Next
\* returns the wrapped reply, every later Next fails with Exhausted, and
\* HasNext is false once the item has been consumed.
C3_SingleValueStream ==
    (MongoStreamHeld /\ ~lastQ.resp.hasCursor) =>
        /\ rs.kind = "single"
        /\ Len(got) = 0 => (lastHas # "false" /\ Obtainable(rs))
        /\ Len(got) >= 1 =>
              /\ got[1] = [row |-> <<newMongoResponse(lastQ.resp)>>, err |-> Nil]
              /\ \A i \in 2..Len(got) : got[i] = [row |-> <<>>, err |-> ErrExhausted]
              /\ ~Obtainable(rs)
              /\ lastOp = "HasNext" => lastHas = "false"

\* C3 witness: the one item was consumed, a further Next failed, and a
\* HasNext made after that answered false.
C3_Witness ==
    /\ MongoStreamHeld
    /\ ~lastQ.resp.hasCursor
    /\ Len(got) >= 2
    /\ lastOp = "HasNext"
    /\ lastHas = "false"

\* the batches (array-valued fields) of the cursor document of the latest reply
Batches == {e \in lastQ.resp.cursor.fields : e.arr}

RECURSIVE TotalItems(_)
\* the number of items in a set of batches
TotalItems(B) ==
    IF B = {} THEN 0
    ELSE LET e == CHOOSE x \in B : TRUE IN Len(e.items) + TotalItems(B \ {e})

\* the index of the Next call that returned the item x (0: none did)
ReturnedAt(x) ==
    IF \E i \in 1..Len(got) : got[i].row = <<newMongoResponse(x)>>
    THEN CHOOSE i \in 1..Len(got) : got[i].row = <<newMongoResponse(x)>>
    ELSE 0

\* C4: on the stream of a reply whose "cursor" is a document with N items
\* in its array-valued fields, exactly the first N Next calls succeed and
\* the later ones report exhaustion; every row returned is an item of some
\* batch, no item is returned twice, and two items of one batch come out
\* in their order within the batch.
C4_EmittedItems ==
    (MongoStreamHeld /\ lastQ.resp.hasCursor /\ lastQ.resp.cursor.doc) =>
        LET N == TotalItems(Batches)
        IN  /\ rs.kind = "yield"
            /\ \A i \in 1..Len(got) :
                  /\ i <= N => got[i].err = Nil
                  /\ i > N => got[i] = [row |-> <<>>, err |-> ErrExhausted]
            /\ \A i \in 1..Len(got) : got[i].err = Nil =>
                  \E e \in Batches : \E k \in 1..Len(e.items) :
                      got[i].row = <<newMongoResponse(e.items[k])>>
            /\ \A i, j \in 1..Len(got) :
                  (i < j /\ got[i].err = Nil /\ got[j].err = Nil)
                      => got[i].row # got[j].row
            /\ \A e \in Batches : \A a, b \in 1..Len(e.items) :
                  (a < b /\ ReturnedAt(e.items[b]) # 0)
                      => /\ ReturnedAt(e.items[a]) # 0
                         /\ ReturnedAt(e.items[a]) < ReturnedAt(e.items[b])

\* C4 witness: a cursor document with items in two batches and a field that
\* is no array, drained to exhaustion.
C4_Witness ==
    /\ MongoStreamHeld
    /\ lastQ.resp.hasCursor
    /\ lastQ.resp.cursor.doc
    /\ Cardinality({e \in Batches : e.items # <<>>}) = 2
    /\ \E e \in lastQ.resp.cursor.fields : ~e.arr
    /\ Len(got) = TotalItems(Batches) + 1
    /\ got[Len(got)].err = ErrExhausted

\* the caller holds a stream built by NextYield from a producer that
\* returns an error after its emissions
FailingProducerHeld ==
    ~rs.dropped /\ rs.kind = "yield" /\ rs.src.kind = "fn" /\ rs.src.err # Nil

\* C5: when the producer emits k items and then returns an error, the first
\* k Next calls return the k items in emission order and the (k+1)-th
\* returns that error.
C5_ItemsThenError ==
    FailingProducerHeld =>
        LET k == Len(rs.src.emit)
        IN  \A i \in 1..Len(got) :
               /\ i <= k => got[i] = [row |-> <<rs.src.emit[i]>>, err |-> Nil]
               /\ i = k + 1 => got[i] = [row |-> <<>>, err |-> rs.src.err]

\* C5 witness: the scenario of the specification: 3 items emitted, then
\* the error, and 4 Next calls made.
C5_Witness ==
    /\ FailingProducerHeld
    /\ Len(rs.src.emit) = 3
    /\ Len(got) = 4
    /\ got[4].err = ErrProducer

\* C6: HasNext is idempotent and has no effect on the stream's position: no
\* HasNext moves the position or changes what Next has returned, and a
\* HasNext that follows a HasNext gives the same answer and changes nothing
\* at all, so that every later call behaves as after a single HasNext.
C6_HasNextIdempotent ==
    [][(lastOp' = "HasNext" /\ ~panicked') =>
          /\ rs'.pos = rs.pos
          /\ got' = got
          /\ rs.ran => rs'.items = rs.items
          /\ lastOp = "HasNext" =>
                /\ rs' = rs
                /\ lastHas' = lastHas
                /\ closes' = closes]_vars

\* C6 witness: two HasNext calls in a row after a Next, on a stream that
\* still has a row.
C6_Witness ==
    /\ ~rs.dropped
    /\ lastOp = "HasNext"
    /\ streak >= 2
    /\ lastHas = "true"
    /\ Len(got) >= 1

\* the latest reply carries a "cursor" field that is no document
MalformedReplyHeld ==
    lastQ.driver = "mongo" /\ lastQ.stream /\ lastQ.resp.hasCursor
        /\ ~lastQ.resp.cursor.doc

\* C7: a reply whose "cursor" field is no document fails the query with an
\* error value and never crashes the process: no call panics, and the Next
\* calls on the stream of such a reply return the malformed-reply error.
C7_MalformedReplyIsError ==
    MalformedReplyHeld =>
        /\ ~panicked
        /\ Len(got) >= 1 => got[1] = [row |-> <<>>, err |-> ErrMalformedReply]

\* C8: a Query that fails returns no stream and leaks nothing.  In
\* duckDriver.Query: when Conn fails nothing is closed and no connection is
\* taken; when con.Query fails the connection taken has been closed exactly
\* once on return; when it succeeds the connection is still open and is the
\* cleanup of the stream returned.  A failed mongoDriver.Query returns no
\* stream either.
C8_FailedQueryLeaksNothing ==
    /\ [](lastOp = "Query" =>
            /\ lastQ.err # Nil =>
                  /\ ~lastQ.stream
                  /\ rs = NoStream
                  /\ lastQ.conn # 0 => closes[lastQ.conn] = 1
            /\ (lastQ.driver = "duck" /\ lastQ.err = Nil) =>
                  /\ lastQ.conn # 0
                  /\ closes[lastQ.conn] = 0
                  /\ rs.cb = lastQ.conn
                  /\ ~rs.once)
    /\ [][(lastOp' = "Query" /\ lastQ'.driver = "duck") =>
             /\ lastQ'.conn = 0 => (closes' = closes /\ nconn' = nconn /\ lastQ'.err # Nil)
             /\ lastQ'.conn # 0 =>
                   /\ nconn' = nconn + 1
                   /\ lastQ'.conn = nconn'
                   /\ \A c \in 1..MaxConn : c # nconn' => closes'[c] = closes[c]]_vars

\* C8 witness: the context was cancelled while con.Query ran: Query
\* returned the error and the connection it had taken is closed.
C8_Witness ==
    /\ lastOp = "Query"
    /\ lastQ.driver = "duck"
    /\ lastQ.err = ErrCancelled
    /\ lastQ.conn # 0
    /\ closes[lastQ.conn] = 1

\* C9: for every value of registered concrete types, GobDecode of the bytes
\* of GobEncode succeeds and yields the value; for a value of an
\* unregistered type the round trip fails.
C9_GobRoundTripLaw ==
    gobr.done =>
        /\ Registered(gobr.v) =>
              (gobr.encErr = Nil /\ gobr.decErr = Nil /\ gobr.out = gobr.v)
        /\ (gobr.v.type \in GobUnregistered) =>
              (gobr.encErr # Nil \/ gobr.decErr # Nil)

\* C10: Structure returns one entry per table or collection the backend
\* reports, in the backend's order, each {Name: the name, Schema: "",
\* Type: Table}, for the duck driver and for the mongo driver.
C10_StructureEntries ==
    (structure.driver # "none" /\ structure.err = Nil) =>
        /\ Len(structure.schema) = Len(structure.tables)
        /\ \A i \in 1..Len(structure.tables) :
              structure.schema[i] =
                  [Name |-> structure.tables[i], Schema |-> "", Type |-> "table"]

\* C10 witness: the duck driver drained the two tables "a", "b".
C10_Witness ==
    /\ structure.driver = "duck"
    /\ structure.err = Nil
    /\ structure.tables = <<"a", "b">>
    /\ structure.schema = <<[Name |-> "a", Schema |-> "", Type |-> "table"],
                            [Name |-> "b", Schema |-> "", Type |-> "table"]>>

\* the identifiers the init functions register
InitIdentifiers == {"mongo", "mongodb", "duck", "duckdb"}

\* C11: Connect on an identifier no Register call has associated with an
\* adapter fails with UnknownAdapter and creates no driver; the init
\* functions register exactly "mongo", "mongodb", "duck" and "duckdb", so
\* that before any later Register exactly those identifiers are found.
C11_UnknownAdapter ==
    /\ \A id \in Identifiers : (InitRegistry[id] # NoAdapter) <=> (id \in InitIdentifiers)
    /\ \A id \in InitIdentifiers : registry[id] # NoAdapter
    /\ lastConn.done =>
          /\ registry[lastConn.id] = NoAdapter =>
                (lastConn.err = ErrUnknownAdapter /\ lastConn.driver = "none")
          /\ registry[lastConn.id] # NoAdapter => lastConn.err # ErrUnknownAdapter
          /\ registry = InitRegistry =>
                ((lastConn.err = ErrUnknownAdapter) <=> (lastConn.id \notin InitIdentifiers))

\* C11 witness: Connect("x", ...) on the registry as the init functions
\* left it returned UnknownAdapter and no driver.
C11_Witness ==
    /\ lastConn.done
    /\ lastConn.id = "x"
    /\ registry = InitRegistry
    /\ lastConn.err = ErrUnknownAdapter
    /\ lastConn.driver = "none"

\* C14: the registry never overwrites: an identifier that maps to an
\* adapter maps to that adapter ever after, and a Register call naming an
\* identifier that is taken returns an error.
C14_RegistryAppendOnly ==
    /\ [][\A id \in Identifiers :
             registry[id] # NoAdapter => registry'[id] = registry[id]]_vars
    /\ [][(lastOp' = "Register" /\ lastReg'.done
            /\ \E i \in 1..Len(lastReg'.ids) : registry[lastReg'.ids[i]] # NoAdapter)
             => lastReg'.err # Nil]_vars

\* C14 witness: Register(Duck, "x", "mongo") was rejected; "mongo" still
\* maps to the Mongo adapter and "x" to none.
C14_Witness ==
    /\ lastReg.done
    /\ lastReg.adapter = "Duck"
    /\ lastReg.ids = <<"x", "mongo">>
    /\ lastReg.err # Nil
    /\ registry["mongo"] = "Mongo"

\* C19: Mongo.Connect returns a driver or an error for every connection
\* string and never crashes; a parsable URL whose path is empty or "/"
\* gives a driver whose database name is empty.
C19_ConnectNeverCrashes ==
    /\ ~panicked
    /\ (lastConn.done /\ registry[lastConn.id] = "Mongo") =>
          /\ (lastConn.driver = "mongo") <=> (lastConn.err = Nil)
          /\ lastConn.url.parseErr => lastConn.err # Nil
          /\ (~lastConn.url.parseErr /\ ~lastConn.url.connErr
                /\ lastConn.url.path \in {<<>>, <<"/">>})
                => (lastConn.driver = "mongo" /\ lastConn.dbName = "")

\* the value NaN inside an array, and the array of 1 and "s"
NaNInArray ==
    [kind |-> "arr", tok |-> "",
     elems |-> <<[kind |-> "num", tok |-> "1", elems |-> <<>>],
                 [kind |-> "nan", tok |-> "NaN", elems |-> <<>>]>>]
OneAndS ==
    [kind |-> "arr", tok |-> "",
     elems |-> <<[kind |-> "num", tok |-> "1", elems |-> <<>>],
                 [kind |-> "str", tok |-> "s", elems |-> <<>>]>>]

\* C12: the JSON encoding of an envelope wrapping v is the JSON encoding of
\* v: the same bytes when v can be encoded, the same error when it cannot.
C12_JsonLaw ==
    render.done =>
        /\ render.json.err = jsonMarshal(render.v).err
        /\ render.json.bytes = jsonMarshal(render.v).bytes
        /\ JsonEncodable(render.v) <=> render.json.err = Nil
        /\ ~JsonEncodable(render.v) => render.json.err = ErrUnsupportedValue

\* C12 witness: the envelope of [1, "s"] was encoded as [1,"s"], and so was
\* the array itself.
C12_Witness ==
    /\ render.done
    /\ render.v = OneAndS
    /\ render.json = [bytes |-> <<"[", "1", ",", "\"", "s", "\"", "]">>, err |-> Nil]

\* C16: String returns the indented JSON rendering of the wrapped value
\* when that rendering succeeds and the default textual form of the value
\* otherwise; it returns a text for every value and never fails.
C16_StringNeverFails ==
    render.done =>
        /\ ~panicked
        /\ jsonMarshalIndent(render.v).err = Nil
             => render.str = jsonMarshalIndent(render.v).bytes
        /\ jsonMarshalIndent(render.v).err # Nil => render.str = fmtSprint(render.v)
        /\ render.str # <<>>

\* C16 witness: the array of 1 and NaN has no JSON rendering; String
\* returned its default textual form, [1 NaN].
C16_Witness ==
    /\ render.done
    /\ render.v = NaNInArray
    /\ render.json.err # Nil
    /\ render.str = <<"[", "1", " ", "NaN", "]">>

\* the caller holds a stream whose producer is to fail before it emits
\* anything: the stream of a malformed mongo reply, or one over a producer
\* function that returns an error at once
FailsAtOnceHeld ==
    \/ MalformedReplyHeld /\ ~rs.dropped
    \/ FailingProducerHeld /\ rs.src.emit = <<>>

C15_RowArity ==
    MongoStreamHeld =>
        /\ rs.header = <<"Reply">>
        /\ rs.meta = [SchemaType |-> "SchemaLess"]
        /\ \A i \in 1..Len(got) :
              got[i].err = Nil =>
                 /\ Len(got[i].row) = Len(rs.header)
                 /\ Len(got[i].row) = 1
                 /\ got[i].row[1] = newMongoResponse(got[i].row[1].value)

\* C15 witness: a mongo stream on the cursor path has yielded two rows and
\* then ended.
C15_Witness ==
    /\ MongoStreamHeld
    /\ lastQ.resp.hasCursor
    /\ Len(got) = 3
    /\ got[1].err = Nil
    /\ got[2].err = Nil
    /\ got[3].err = ErrExhausted
    /\ rs.header = MongoHeader

\* the step is a Query, Structure or ListDatabases call on the mongo driver
MongoCallStep == lastOp' \in {"Query", "Structure", "ListDatabases"} /\ dbUse'.done

\* C17: the current database is sticky.  SelectDatabase(n) stores n; a
\* mongo call made while a name is stored works on that name, does not ask
\* the server for a default and leaves the name stored; a mongo call made
\* while no name is stored that succeeds in selecting asks the server, works
\* on the first name listed and stores it; nothing but SelectDatabase
\* replaces a stored name.
C17_StickyDatabase ==
    [][/\ lastOp' = "SelectDatabase" => dbName' = dbUse'.name
       /\ (MongoCallStep /\ dbName # "") =>
             (dbUse'.name = dbName /\ ~dbUse'.asked /\ dbName' = dbName)
       /\ (MongoCallStep /\ dbName = "" /\ dbUse'.first # "") =>
             (dbUse'.asked /\ dbUse'.name = dbUse'.first /\ dbName' = dbUse'.first)
       /\ (lastOp' # "SelectDatabase" /\ dbName # "") => dbName' = dbName]_vars

\* C17 witness: with no name stored, ListDatabases asked the server, worked
\* on "b", the first name listed, and stored it.
C17_Witness ==
    /\ lastOp = "ListDatabases"
    /\ dbUse.done
    /\ dbUse.asked
    /\ dbUse.first = "b"
    /\ dbUse.name = "b"
    /\ dbUse.ran
    /\ dbName = "b"

\* C18: a mongo call made while no name is stored and for which the server
\* fails to list its databases, or lists none, returns an error, runs no
\* command and lists no collections, hands out no stream, and leaves the
\* stored name empty; every mongo call made while no name is stored asks
\* the server.
C18_DefaultSelectionFails ==
    [][/\ (MongoCallStep /\ dbName = "") => dbUse'.asked
       /\ (MongoCallStep /\ dbName = ""
             /\ (dbUse'.listErr # Nil \/ dbUse'.first = "")) =>
             /\ dbUse'.err # Nil
             /\ ~dbUse'.ran
             /\ dbName' = ""
             /\ rs'.dropped
             /\ structure'.schema = <<>>
             /\ lastOp' = "Query" => lastQ'.err # Nil
             /\ lastOp' = "Structure" => structure'.err # Nil]_vars

\* C18 witness: Structure, called with no name stored while the server
\* failed to list its databases, returned an error and listed nothing.
C18_Witness ==
    /\ lastOp = "Structure"
    /\ dbUse.done
    /\ dbUse.asked
    /\ dbUse.listErr # Nil
    /\ dbUse.err = ErrSelectDefault
    /\ ~dbUse.ran
    /\ structure.err = ErrSelectDefault
    /\ dbName = ""

====
